---- MODULE Spec2Model ----
(***************************************************************************)
(* Model of src/ffi.rs of tap-windows: the safe wrappers over the device  *)
(* installation facility (SetupDi...), the overlapped file I/O adapter and *)
(* the registry change waiter.                                             *)
(*                                                                         *)
(* The foreign primitives are the environment: each is modelled by its     *)
(* documented contract (the status it reports, the data it writes), and    *)
(* may also report a failure status.  The wrappers are translated from the *)
(* Rust code.                                                              *)
(***************************************************************************)
EXTENDS Integers, Sequences, FiniteSets, TLC

\* ---------------------------------------------------------------- bounds
MaxHandles == 1
MaxDevices == 2
MaxWrappers == 2
MaxIters == 1
MaxPulls == 3
MaxFaults == 1
MaxLen == 2
MaxBuf == 2
MaxCalls == 2
MaxTimeout == 2

VARIABLES
    devsets,     \* the facility's device info sets, by raw HDEVINFO value
    wrappers,    \* per raw handle, the DeviceInfo values wrapping it: live and dropped
    iters,       \* the DeviceInfoIter values constructed so far
    faults,      \* facility failures reported so far (bounded by MaxFaults)
    regstore,    \* the facility's store of one device's registry properties
    lastSet,     \* per property, the text last written successfully
    propCall,    \* the last set/get_device_registry_property call and its result
    iopc,        \* where the caller of read_file/write_file is: "idle" or "waiting"
    ioop,        \* the device's asynchronous operation
    ret,         \* the local ret of the running read_file/write_file
    ioCall,      \* the current or last read_file/write_file call and its result
    openEvents,  \* event handles created by read_file/write_file and not closed
    ioCalls,     \* read_file/write_file calls made (bounded by MaxCalls)
    rpc,         \* where the caller of notify_change_key_value is
    regEvent,    \* the event and the registration of the running waiter
    regCall,     \* the current or last notify_change_key_value call and its result
    regEvents,   \* event handles created by notify_change_key_value and not closed
    regCalls     \* notify_change_key_value calls made (bounded by MaxCalls)

enumVars == <<devsets, wrappers, iters, faults>>

propVars == <<regstore, lastSet, propCall>>

ioVars == <<iopc, ioop, ret, ioCall, openEvents, ioCalls>>

regVars == <<rpc, regEvent, regCall, regEvents, regCalls>>

vars == <<enumVars, propVars, ioVars, regVars>>

notEnumVars == <<propVars, ioVars, regVars>>

notPropVars == <<enumVars, ioVars, regVars>>

notIoVars == <<enumVars, propVars, regVars>>

notRegVars == <<enumVars, propVars, ioVars>>

Handles == 1..MaxHandles

\* ------------------------------------------------- Option<io::Result<T>>
None == [tag |-> "None", idx |-> 0, err |-> "-"]

SomeOk(i) == [tag |-> "Ok", idx |-> i, err |-> "-"]

SomeErr(e) == [tag |-> "Err", idx |-> 0, err |-> e]

\* ------------------------------------------------------- the facility
\* SetupDiGetClassDevsW / SetupDiCreateDeviceInfoList hand out a handle
\* value that is not in use.
FreshHandles == {h \in Handles : devsets[h].state = "unallocated"}

Allocated == {h \in Handles : devsets[h].state # "unallocated"}

\* The failure statuses the facility may add to its documented outcome.
FaultChoices == IF faults < MaxFaults THEN {"none", "ERROR_NOT_ENOUGH_MEMORY"} ELSE {"none"}

\* SetupDiEnumDeviceInfo(devinfo, member_index, &mut devinfo_data): the status.
SetupDiEnumDeviceInfo(devinfo, member_index, fault) ==
    IF fault # "none" THEN fault
    ELSE IF devsets[devinfo].state # "live" THEN "ERROR_INVALID_HANDLE"
    ELSE IF member_index < devsets[devinfo].n THEN "OK"
    ELSE "ERROR_NO_MORE_ITEMS"

\* SetupDiDestroyDeviceInfoList(devinfo): the sets after the call.
SetupDiDestroyDeviceInfoList(devinfo) ==
    [devsets EXCEPT ![devinfo].destroyCalls = @ + 1,
                    ![devinfo].state = "destroyed"]

\* ------------------------------------------------------- the wrappers
\* enum_device_info: "no more items" is absorbed into None, every other
\* failure is Some(Err).  The record produced is the one at member_index.
enum_device_info_sentinel_as_error(status, member_index) ==
    IF status = "OK" THEN SomeOk(member_index) ELSE SomeErr(status)

enum_device_info(status, member_index) ==
    IF status = "OK" THEN SomeOk(member_index)
    ELSE IF status = "ERROR_NO_MORE_ITEMS" THEN None
    ELSE SomeErr(status)

\* get_class_devs: the facility opens a set holding the n present devices.
get_class_devs ==
    \E h \in FreshHandles, n \in 0..MaxDevices :
        /\ devsets' = [devsets EXCEPT ![h] = [state |-> "live", n |-> n, destroyCalls |-> 0]]
        /\ UNCHANGED <<wrappers, iters, faults, notEnumVars>>

\* create_device_info_list: the facility opens an empty set.
create_device_info_list ==
    \E h \in FreshHandles :
        /\ devsets' = [devsets EXCEPT ![h] = [state |-> "live", n |-> 0, destroyCalls |-> 0]]
        /\ UNCHANGED <<wrappers, iters, faults, notEnumVars>>

\* create_device_info: a device record is added to a live set.  An iterator
\* over that set that has already pulled is now iterating a modified set.
create_device_info ==
    \E h \in Handles :
        /\ devsets[h].state = "live"
        /\ devsets[h].n < MaxDevices
        /\ devsets' = [devsets EXCEPT ![h].n = @ + 1]
        /\ iters' = [i \in DOMAIN iters |->
                        IF iters[i].handle = h /\ Len(iters[i].pulls) > 0
                        THEN [iters[i] EXCEPT !.disturbed = TRUE]
                        ELSE iters[i]]
        /\ UNCHANGED <<wrappers, faults, notEnumVars>>

\* The DeviceInfo values constructed so far.
Constructed == LET Sum[h \in 0..MaxHandles] ==
                       IF h = 0 THEN 0 ELSE Sum[h - 1] + wrappers[h].live + wrappers[h].dropped
               IN  Sum[MaxHandles]

\* DeviceInfo::new(hdeviceinfo): any raw handle value the caller holds.
DeviceInfo_new ==
    \E h \in Allocated :
        /\ Constructed < MaxWrappers
        /\ wrappers' = [wrappers EXCEPT ![h].live = @ + 1]
        /\ UNCHANGED <<devsets, iters, faults, notEnumVars>>

\* DeviceInfoIter::new(handle): cursor 0.
DeviceInfoIter_new(handle) ==
    [handle |-> handle, current |-> 0,
     \* what the consumer has observed, and what happened to the set
     pulls |-> <<>>, disturbed |-> FALSE, usedAfterRelease |-> FALSE]

\* DeviceInfo::device_iter(&self): copies the raw handle into the iterator.
DeviceInfo_device_iter ==
    \E h \in Handles :
        /\ wrappers[h].live > 0
        /\ Len(iters) < MaxIters
        /\ iters' = Append(iters, DeviceInfoIter_new(h))
        /\ UNCHANGED <<devsets, wrappers, faults, notEnumVars>>

\* Deref for DeviceInfo: read access to the raw handle, nothing changes.
DeviceInfo_deref ==
    \E h \in Handles :
        /\ wrappers[h].live > 0
        /\ UNCHANGED vars

\* Drop for DeviceInfo: let _ = destroy_device_info_list(self.0).
DeviceInfo_drop ==
    \E h \in Handles :
        /\ wrappers[h].live > 0
        /\ wrappers' = [wrappers EXCEPT ![h].live = @ - 1, ![h].dropped = @ + 1]
        /\ devsets' = SetupDiDestroyDeviceInfoList(h)
        /\ UNCHANGED <<iters, faults, notEnumVars>>

\* The pulls made so far, over all iterators.
Pulls == LET Sum[i \in 0..Len(iters)] ==
                 IF i = 0 THEN 0 ELSE Sum[i - 1] + Len(iters[i].pulls)
         IN  Sum[Len(iters)]

\* Iterator::next for DeviceInfoIter: enumerate at the cursor, then advance
\* the cursor whatever the outcome.  (current is a u32; MaxPulls keeps it far
\* from 2^32.)
DeviceInfoIter_next ==
    \E i \in DOMAIN iters, fault \in FaultChoices :
        LET it == iters[i]
            status == SetupDiEnumDeviceInfo(it.handle, it.current, fault)
            result == enum_device_info(status, it.current)
            released == devsets[it.handle].state # "live"
        IN  /\ Pulls < MaxPulls
            /\ iters' = [iters EXCEPT ![i] =
                            [it EXCEPT !.current = @ + 1,
                                       !.pulls = Append(@, result),
                                       !.disturbed = @ \/ released \/ fault # "none",
                                       !.usedAfterRelease = @ \/ released]]
            /\ faults' = IF fault # "none" THEN faults + 1 ELSE faults
            /\ UNCHANGED <<devsets, wrappers, notEnumVars>>

EnumInit ==
    /\ devsets = [h \in Handles |-> [state |-> "unallocated", n |-> 0, destroyCalls |-> 0]]
    /\ wrappers = [h \in Handles |-> [live |-> 0, dropped |-> 0]]
    /\ iters = <<>>
    /\ faults = 0

EnumNext ==
    \/ get_class_devs
    \/ create_device_info_list
    \/ create_device_info
    \/ DeviceInfo_new
    \/ DeviceInfo_device_iter
    \/ DeviceInfo_deref
    \/ DeviceInfo_drop
    \/ DeviceInfoIter_next

\* ======================================================== registry property
\* A text value is a sequence of Unicode scalar values (a Rust &str).
RECURSIVE encode_utf16(_)
\* str::encode_utf16: one unit for a scalar below 0x10000, else a surrogate pair.
encode_utf16(s) ==
    IF s = <<>> THEN <<>>
    ELSE LET c == Head(s)
         IN  (IF c < 65536 THEN <<c>>
              ELSE <<55296 + ((c - 65536) \div 1024), 56320 + ((c - 65536) % 1024)>>)
             \o encode_utf16(Tail(s))

\* u16::to_le_bytes
to_le_bytes(x) == <<x % 256, x \div 256>>

RECURSIVE flat_map_bytes(_)
flat_map_bytes(units) ==
    IF units = <<>> THEN <<>> ELSE to_le_bytes(Head(units)) \o flat_map_bytes(Tail(units))

\* The buffer set_device_registry_property hands to the facility for Some(v):
\* v.encode_utf16().chain(Some(0)) as little endian bytes.
EncodeValue(v) == flat_map_bytes(encode_utf16(v) \o <<0>>)

\* Text values the caller may write.
Chars == {0, 65, 65536}

Texts == UNION {[1..n -> Chars] : n \in 0..MaxLen}

\* The SETUP_DI_REGISTRY_PROPERTY values the caller uses (both REG_SZ).
Props == {"SPDRP_DEVICEDESC", "SPDRP_FRIENDLYNAME"}

NoText == <<-1>>

Absent == [present |-> FALSE, data |-> <<>>]

Ok(text) == [tag |-> "Ok", text |-> text, err |-> "-"]

Err(e) == [tag |-> "Err", text |-> <<>>, err |-> e]

PropFaults == {"none", "ERROR_GEN_FAILURE"}

\* SetupDiSetDeviceRegistryPropertyW(devinfo, dev, property, buffer): the
\* status and the store after the call.  A null buffer deletes the property.
SetupDiSetDeviceRegistryPropertyW(store, property, hasBuffer, buffer, fault) ==
    IF fault # "none" THEN [status |-> fault, store |-> store]
    ELSE IF ~hasBuffer THEN [status |-> "OK", store |-> [store EXCEPT ![property] = Absent]]
    ELSE [status |-> "OK",
          store |-> [store EXCEPT ![property] = [present |-> TRUE, data |-> buffer]]]

\* SetupDiGetDeviceRegistryPropertyW(devinfo, dev, property, None, buffer,
\* requiredsize) with a buffer of bufsize bytes: the status, the required size
\* and the bytes written to the buffer.
SetupDiGetDeviceRegistryPropertyW(store, property, bufsize, fault) ==
    IF fault # "none" THEN [status |-> fault, requiredsize |-> 0, data |-> <<>>]
    ELSE IF ~store[property].present
    THEN [status |-> "ERROR_INVALID_DATA", requiredsize |-> 0, data |-> <<>>]
    ELSE IF bufsize < Len(store[property].data)
    THEN [status |-> "ERROR_INSUFFICIENT_BUFFER",
          requiredsize |-> Len(store[property].data), data |-> <<>>]
    ELSE [status |-> "OK", requiredsize |-> Len(store[property].data),
          data |-> store[property].data]

\* set_device_registry_property(devinfo, dev, property, value)
set_device_registry_property(store, property, hasValue, v, fault) ==
    LET buffer == IF hasValue THEN EncodeValue(v) ELSE <<>>
        r == SetupDiSetDeviceRegistryPropertyW(store, property, hasValue, buffer, fault)
    IN  [store |-> r.store,
         result |-> IF r.status = "OK" THEN Ok(<<>>) ELSE Err(r.status)]

\* The buffer read as native (little endian) u16 units.
Units(buf) == [k \in 1..(Len(buf) \div 2) |-> buf[2 * k - 1] + 256 * buf[2 * k]]

Zeros(n) == [k \in 1..n |-> 0]

\* What may follow the allocation when a scan runs past its end.
PastEnd == {<<>>, <<65>>}

\* PCWSTR::as_wide: the units before the first zero unit.  A buffer holding
\* no zero unit is read past its end.
PCWSTR_as_wide(buf) ==
    LET u == Units(buf)
        z == {k \in DOMAIN u : u[k] = 0}
    IN  IF z # {}
        THEN {SubSeq(u, 1, (CHOOSE k \in z : \A j \in z : k <= j) - 1)}
        ELSE {u \o t : t \in PastEnd}

RECURSIVE from_utf16(_)
\* String::from_utf16: surrogate pairs are joined, a lone surrogate is an error.
from_utf16(u) ==
    IF u = <<>> THEN [ok |-> TRUE, text |-> <<>>]
    ELSE IF Head(u) < 55296 \/ Head(u) > 57343
    THEN LET r == from_utf16(Tail(u))
         IN  [ok |-> r.ok, text |-> <<Head(u)>> \o r.text]
    ELSE IF Head(u) <= 56319 /\ Len(u) >= 2 /\ u[2] >= 56320 /\ u[2] <= 57343
    THEN LET r == from_utf16(Tail(Tail(u)))
         IN  [ok |-> r.ok,
              text |-> <<65536 + (Head(u) - 55296) * 1024 + (u[2] - 56320)>> \o r.text]
    ELSE [ok |-> FALSE, text |-> <<>>]

FromWide(w) ==
    LET d == from_utf16(w) IN IF d.ok THEN Ok(d.text) ELSE Err("FromUtf16Error")

\* PCWSTR(value).to_string().map_err(..): the possible results.
PCWSTR_to_string_whole_buffer(buf) == {FromWide(Units(buf))}

PCWSTR_to_string(buf) == {FromWide(w) : w \in PCWSTR_as_wide(buf)}

\* get_device_registry_property(devinfo, dev, property): the possible
\* outcomes, each with the status of the size probe and the number of calls
\* made to the facility.
get_device_registry_property_any_probe_error(store, property, fault1, fault2) ==
    LET probe == SetupDiGetDeviceRegistryPropertyW(store, property, 0, fault1)
    IN  {[probe |-> probe.status, calls |-> 1, result |-> Err(probe.status)]}

get_device_registry_property(store, property, fault1, fault2) ==
    LET probe == SetupDiGetDeviceRegistryPropertyW(store, property, 0, fault1)
        requiredsize == probe.requiredsize
        fetch == SetupDiGetDeviceRegistryPropertyW(store, property, requiredsize, fault2)
        value == fetch.data \o Zeros(requiredsize - Len(fetch.data))
    IN  IF probe.status # "OK" /\ probe.status # "ERROR_INSUFFICIENT_BUFFER"
        THEN {[probe |-> probe.status, calls |-> 1, result |-> Err(probe.status)]}
        ELSE IF fetch.status # "OK"
        THEN {[probe |-> probe.status, calls |-> 2, result |-> Err(fetch.status)]}
        ELSE {[probe |-> probe.status, calls |-> 2, result |-> r] :
                 r \in PCWSTR_to_string(value)}

NoCall ==
    [op |-> "none", property |-> "-", probe |-> "-", calls |-> 0, result |-> Ok(<<>>),
     faulted |-> FALSE]

\* A call of set_device_registry_property with Some(v) or None.
SetProperty ==
    \E property \in Props, hasValue \in BOOLEAN, v \in Texts, fault \in PropFaults :
        LET r == set_device_registry_property(regstore, property, hasValue, v, fault)
        IN  /\ hasValue \/ v = <<>>
            /\ regstore' = r.store
            /\ lastSet' = IF r.result.tag # "Ok" THEN lastSet
                          ELSE [lastSet EXCEPT ![property] = IF hasValue THEN v ELSE NoText]
            /\ propCall' = [op |-> "set", property |-> property, probe |-> "-",
                            calls |-> 1, result |-> r.result, faulted |-> fault # "none"]
            /\ UNCHANGED notPropVars

\* A call of get_device_registry_property.
GetProperty ==
    \E property \in Props, fault1 \in PropFaults, fault2 \in PropFaults :
        \E r \in get_device_registry_property(regstore, property, fault1, fault2) :
            /\ propCall' = [op |-> "get", property |-> property, probe |-> r.probe,
                            calls |-> r.calls, result |-> r.result,
                            faulted |-> fault1 # "none" \/ (r.calls = 2 /\ fault2 # "none")]
            /\ UNCHANGED <<regstore, lastSet, notPropVars>>

PropInit ==
    /\ regstore = [p \in Props |-> Absent]
    /\ lastSet = [p \in Props |-> NoText]
    /\ propCall = NoCall

PropNext ==
    \/ SetProperty
    \/ GetProperty

\* ========================================================= overlapped I/O
IoOk(n) == [tag |-> "Ok", n |-> n, err |-> "-"]

IoErr(e) == [tag |-> "Err", n |-> 0, err |-> e]

NoOp == [state |-> "none", n |-> 0, err |-> "-"]

NoIoCall ==
    [kind |-> "none", len |-> 0, path |-> "none", events |-> 0, issued |-> -1,
     completed |-> -1, waits |-> 0, result |-> IoOk(0)]

\* CreateEventW(None, true, false, None): a manual-reset event, or a failure.
CreateEventOutcomes == {"OK", "ERROR_NO_SYSTEM_RESOURCES"}

\* ReadFile/WriteFile on an overlapped handle with a buffer of len bytes:
\* immediate completion with the count transferred, pending (the count is
\* zeroed), or a failure.
IssueOutcomes(len) ==
    {[status |-> "OK", n |-> n] : n \in 0..len}
    \cup {[status |-> "ERROR_IO_PENDING", n |-> 0], [status |-> "ERROR_INVALID_HANDLE", n |-> 0]}

\* The bWait argument read_file/write_file pass to GetOverlappedResult.
bWait_false == FALSE

bWait == TRUE

\* GetOverlappedResult(handle, &overlapped, &mut ret, bWait): whether it
\* returns in this state of the operation, its status and the count it writes.
GetOverlappedResult(op, wait) ==
    IF op.state = "done" THEN [returns |-> TRUE, status |-> "OK", n |-> op.n]
    ELSE IF op.state = "failed" THEN [returns |-> TRUE, status |-> op.err, n |-> 0]
    ELSE IF wait THEN [returns |-> FALSE, status |-> "-", n |-> 0]
    ELSE [returns |-> TRUE, status |-> "ERROR_IO_INCOMPLETE", n |-> 0]

\* The value of ret after GetOverlappedResult(.., &mut ret, ..) succeeded.
ret_not_updated(old, g) == old

ret_after_completion(old, g) == g.n

\* read_file/write_file up to the return or to the blocking wait.
overlapped_call(kind) ==
    \E len \in 0..MaxBuf, ev \in CreateEventOutcomes :
        \E issue \in IssueOutcomes(len) :
            LET call == [NoIoCall EXCEPT !.kind = kind, !.len = len] IN
            /\ iopc = "idle"
            /\ ioCalls < MaxCalls
            /\ ioCalls' = ioCalls + 1
            /\ IF ev # "OK"
               THEN /\ ioCall' = [call EXCEPT !.path = "event_error", !.result = IoErr(ev)]
                    /\ UNCHANGED <<iopc, ioop, ret, openEvents>>
               ELSE /\ openEvents' = openEvents + 1
                    /\ IF issue.status = "OK"
                       THEN /\ ret' = issue.n
                            /\ ioCall' = [call EXCEPT !.path = "immediate", !.events = 1,
                                                      !.issued = issue.n,
                                                      !.result = IoOk(ret')]
                            /\ UNCHANGED <<iopc, ioop>>
                       ELSE IF issue.status # "ERROR_IO_PENDING"
                       THEN /\ ret' = 0
                            /\ ioCall' = [call EXCEPT !.path = "issue_error", !.events = 1,
                                                      !.result = IoErr(issue.status)]
                            /\ UNCHANGED <<iopc, ioop>>
                       ELSE /\ ret' = 0
                            /\ iopc' = "waiting"
                            /\ ioop' = [state |-> "pending", n |-> 0, err |-> "-"]
                            /\ ioCall' = [call EXCEPT !.path = "pending", !.events = 1]
            /\ UNCHANGED notIoVars

read_file == overlapped_call("read")

write_file == overlapped_call("write")

\* The device finishes the pending operation.
DeviceCompletes ==
    /\ ioop.state = "pending"
    /\ \/ \E n \in 0..ioCall.len : ioop' = [state |-> "done", n |-> n, err |-> "-"]
       \/ ioop' = [state |-> "failed", n |-> 0, err |-> "ERROR_OPERATION_ABORTED"]
    /\ UNCHANGED <<iopc, ret, ioCall, openEvents, ioCalls, notIoVars>>

\* read_file/write_file from GetOverlappedResult to the return.
overlapped_return ==
    LET g == GetOverlappedResult(ioop, bWait) IN
    /\ iopc = "waiting"
    /\ g.returns
    /\ iopc' = "idle"
    /\ ioop' = IF ioop.state = "pending" THEN ioop ELSE NoOp
    /\ IF g.status = "OK"
       THEN /\ ret' = ret_after_completion(ret, g)
            /\ ioCall' = [ioCall EXCEPT !.path = "pending_done", !.completed = g.n,
                                      !.waits = @ + 1, !.result = IoOk(ret')]
       ELSE /\ ret' = ret
            /\ ioCall' = [ioCall EXCEPT !.path = "completion_error", !.waits = @ + 1,
                                      !.result = IoErr(g.status)]
    /\ UNCHANGED <<openEvents, ioCalls, notIoVars>>

IoInit ==
    /\ iopc = "idle"
    /\ ioop = NoOp
    /\ ret = 0
    /\ ioCall = NoIoCall
    /\ openEvents = 0
    /\ ioCalls = 0

IoNext ==
    \/ read_file
    \/ write_file
    \/ DeviceCompletes
    \/ overlapped_return

\* ================================================== registry change waiter
RegOk == [tag |-> "Ok", kind |-> "-", err |-> "-"]

\* io::Error::new(io::ErrorKind::TimedOut, "Registry timed out")
RegTimedOut == [tag |-> "Err", kind |-> "TimedOut", err |-> "-"]

\* An io::Error carrying the platform's status.
RegOsError(e) == [tag |-> "Err", kind |-> "Os", err |-> e]

NoRegCall ==
    [made |-> FALSE, watch_subtree |-> FALSE, ms |-> 0, event |-> "-", registration |-> "-", wait |-> "-",
     regs |-> 0, waits |-> 0, result |-> RegOk]

NoEvent == [registered |-> FALSE, subtree |-> FALSE, signaled |-> FALSE, remaining |-> 0]

\* RegNotifyChangeKeyValue(key, watch_subtree, filter, event, TRUE): the status.
RegNotifyOutcomes == {"OK", "ERROR_ACCESS_DENIED"}

\* WaitForSingleObject(event, milliseconds) in this state of the event:
\* "-" while it blocks.
WaitForSingleObject(ev, fault) ==
    IF fault THEN "WAIT_FAILED"
    ELSE IF ev.signaled THEN "WAIT_OBJECT_0"
    ELSE IF ev.remaining = 0 THEN "WAIT_TIMEOUT"
    ELSE "-"

\* The match on the wait's result.
wait_result_timeout_as_os_error(w) ==
    IF w = "WAIT_OBJECT_0" THEN RegOk ELSE RegOsError("last_os_error")

wait_result(w) ==
    IF w = "WAIT_OBJECT_0" THEN RegOk
    ELSE IF w = "WAIT_TIMEOUT" THEN RegTimedOut
    ELSE RegOsError("last_os_error")

\* notify_change_key_value up to the return or to the blocking wait.
notify_change_key_value ==
    \E watch_subtree \in BOOLEAN, ms \in 0..MaxTimeout,
       ev \in CreateEventOutcomes, reg \in RegNotifyOutcomes :
        LET call == [NoRegCall EXCEPT !.made = TRUE, !.watch_subtree = watch_subtree,
                                      !.ms = ms, !.event = ev] IN
        /\ rpc = "idle"
        /\ regCalls < MaxCalls
        /\ regCalls' = regCalls + 1
        /\ IF ev # "OK"
           THEN /\ regCall' = [call EXCEPT !.result = RegOsError(ev)]
                /\ UNCHANGED <<rpc, regEvent, regEvents>>
           ELSE IF reg # "OK"
           THEN /\ regCall' = [call EXCEPT !.registration = reg, !.regs = 1,
                                          !.result = RegOsError(reg)]
                /\ regEvents' = regEvents + 1
                /\ UNCHANGED <<rpc, regEvent>>
           ELSE /\ regCall' = [call EXCEPT !.registration = reg, !.regs = 1]
                /\ regEvents' = regEvents + 1
                /\ rpc' = "waiting"
                /\ regEvent' = [registered |-> TRUE, subtree |-> watch_subtree,
                                signaled |-> FALSE, remaining |-> ms]
        /\ UNCHANGED notRegVars

\* A change the registration watches for happens: the notification signals
\* the event.
KeyChanges ==
    /\ rpc = "waiting"
    /\ regEvent.registered
    /\ ~regEvent.signaled
    /\ regEvent' = [regEvent EXCEPT !.signaled = TRUE]
    /\ UNCHANGED <<rpc, regCall, regEvents, regCalls, notRegVars>>

\* A millisecond of the timeout elapses.
Tick ==
    /\ rpc = "waiting"
    /\ regEvent.remaining > 0
    /\ regEvent' = [regEvent EXCEPT !.remaining = @ - 1]
    /\ UNCHANGED <<rpc, regCall, regEvents, regCalls, notRegVars>>

\* notify_change_key_value from the return of WaitForSingleObject on.
notify_return ==
    \E fault \in BOOLEAN :
        LET w == WaitForSingleObject(regEvent, fault) IN
        /\ rpc = "waiting"
        /\ w # "-"
        /\ rpc' = "idle"
        /\ regEvent' = NoEvent
        /\ regCall' = [regCall EXCEPT !.wait = w, !.waits = @ + 1, !.result = wait_result(w)]
        /\ UNCHANGED <<regEvents, regCalls, notRegVars>>

RegInit ==
    /\ rpc = "idle"
    /\ regEvent = NoEvent
    /\ regCall = NoRegCall
    /\ regEvents = 0
    /\ regCalls = 0

RegNext ==
    \/ notify_change_key_value
    \/ KeyChanges
    \/ Tick
    \/ notify_return

Init == EnumInit /\ PropInit /\ IoInit /\ RegInit

SpecEnum == Init /\ [][EnumNext]_vars

SpecProp == Init /\ [][PropNext]_vars

SpecIo == Init /\ [][IoNext]_vars

SpecReg == Init /\ [][RegNext]_vars

\* ================================================================ claims

IsRecordPull(r) == r.tag = "Ok"

\* C1: an iterator from device_iter over a live set holding N records that is
\* not modified while it is iterated, the facility reporting no failure,
\* yields the records at indices 0..N-1 in that order on its first N pulls and
\* None on every later pull; no pull yields an Err.
C1_FreshIterYieldsAllThenNone ==
    \A i \in DOMAIN iters :
        ~iters[i].disturbed =>
            \A k \in 1..Len(iters[i].pulls) :
                iters[i].pulls[k] =
                    IF k <= devsets[iters[i].handle].n THEN SomeOk(k - 1) ELSE None

C1_Witness ==
    \E i \in DOMAIN iters :
        /\ ~iters[i].disturbed
        /\ devsets[iters[i].handle].n >= 2
        /\ Len(iters[i].pulls) = devsets[iters[i].handle].n + 1
        /\ iters[i].pulls[Len(iters[i].pulls)] = None

\* C6: every raw handle is released exactly once: at least once as soon as a
\* DeviceInfo wrapping it has been dropped, and never twice.
C6_HandleReleasedExactlyOnce ==
    \A h \in Handles :
        /\ devsets[h].destroyCalls <= 1
        /\ wrappers[h].dropped > 0 => devsets[h].destroyCalls = 1

\* C8: once a pull has returned Some(Err), the iterator produces no further
\* record.
C8_ErrorEndsSequence ==
    \A i \in DOMAIN iters :
        \A j, k \in 1..Len(iters[i].pulls) :
            (j < k /\ iters[i].pulls[j].tag = "Err") => ~IsRecordPull(iters[i].pulls[k])

\* C9: no DeviceInfoIter has issued an enumeration call on a handle that was
\* already released.
C9_NoEnumerationAfterRelease ==
    \A i \in DOMAIN iters : ~iters[i].usedAfterRelease

\* C2: in get_device_registry_property an "insufficient buffer" status of the
\* size probe is never the caller's error and is followed by the sized fetch;
\* any other error status of the probe is returned and no second call is made.
C2_ProbeStatusHandling ==
    propCall.op = "get" =>
        /\ propCall.probe = "ERROR_INSUFFICIENT_BUFFER" =>
              /\ propCall.calls = 2
              /\ propCall.result # Err("ERROR_INSUFFICIENT_BUFFER")
        /\ propCall.probe \notin {"OK", "ERROR_INSUFFICIENT_BUFFER"} =>
              /\ propCall.calls = 1
              /\ propCall.result = Err(propCall.probe)

C2_Witness ==
    /\ propCall.op = "get"
    /\ propCall.probe = "ERROR_INSUFFICIENT_BUFFER"
    /\ propCall.calls = 2
    /\ propCall.result.tag = "Ok"
    /\ Len(propCall.result.text) = MaxLen

HasNul(v) == \E k \in DOMAIN v : v[k] = 0

\* A get the facility did not fail, of a property whose last successful set
\* wrote a text.
RoundTrip == propCall.op = "get" /\ ~propCall.faulted /\ lastSet[propCall.property] # NoText

\* C3 (as claimed): for every text v, a get after a successful set of v, with
\* no write to the property in between, returns exactly v.
C3_RoundTripEveryText ==
    RoundTrip => propCall.result = Ok(lastSet[propCall.property])

\* C3 (amended): for every text v holding no NUL character (U+0000), a get
\* after a successful set of v, with no write to the property in between,
\* returns exactly v.
C3_RoundTripNulFreeText ==
    (RoundTrip /\ ~HasNul(lastSet[propCall.property]))
        => propCall.result = Ok(lastSet[propCall.property])

C3_Witness ==
    /\ RoundTrip
    /\ ~HasNul(lastSet[propCall.property])
    /\ Len(lastSet[propCall.property]) = MaxLen
    /\ \E k \in DOMAIN lastSet[propCall.property] : lastSet[propCall.property][k] = 65536
    /\ propCall.result = Ok(lastSet[propCall.property])

\* C4: read_file/write_file return Ok(n) with n the count reported by the
\* completion path taken (the issue step's on immediate completion,
\* GetOverlappedResult's after "pending"); an issue error other than
\* "pending" is returned as Err and no completion wait is made.
C4_ReturnsCompletionCount ==
    iopc = "idle" =>
        /\ ioCall.path = "immediate" =>
              ioCall.result = IoOk(ioCall.issued) /\ ioCall.waits = 0
        /\ ioCall.path = "pending_done" =>
              ioCall.result = IoOk(ioCall.completed) /\ ioCall.waits = 1
        /\ ioCall.path = "issue_error" =>
              ioCall.result.tag = "Err" /\ ioCall.waits = 0

C4_Witness ==
    /\ iopc = "idle"
    /\ ioCall.kind = "read"
    /\ ioCall.path = "pending_done"
    /\ ioCall.completed = MaxBuf
    /\ ioCall.result = IoOk(MaxBuf)

\* C5: no call of read_file/write_file has returned while the operation it
\* issued is still pending; a call that was told "pending" returns only after
\* it retrieved the completion or the retrieval failed.
C5_NeverReturnsWhilePending ==
    iopc = "idle" =>
        /\ ioop.state # "pending"
        /\ ioCall.path # "pending"
        /\ ioCall.path \in {"pending_done", "completion_error"} => ioCall.waits = 1

C5_Witness ==
    /\ iopc = "idle"
    /\ ioCall.kind = "write"
    /\ ioCall.path = "completion_error"
    /\ ioCall.waits = 1
    /\ ioop.state = "none"

\* C10: on every return of read_file/write_file no event the call created is
\* still open: whenever no call is running, no event is open.
C10_NoEventOutlivesCall ==
    iopc = "idle" => openEvents = 0

\* C7: notify_change_key_value returns Ok when the event was signaled,
\* ErrorKind::TimedOut (no platform error) when the wait timed out, and the
\* platform's error when the registration failed (no wait is then made) or the
\* wait failed; a call registers at most once and waits at most once.
C7_ThreeOutcomes ==
    (rpc = "idle" /\ regCall.made) =>
        /\ regCall.result \in {RegOk, RegTimedOut} \cup
              {RegOsError(e) : e \in {"last_os_error"} \cup CreateEventOutcomes \cup RegNotifyOutcomes}
        /\ regCall.wait = "WAIT_OBJECT_0" <=> regCall.result = RegOk
        /\ regCall.wait = "WAIT_TIMEOUT" <=> regCall.result = RegTimedOut
        /\ regCall.wait = "WAIT_FAILED" => regCall.result = RegOsError("last_os_error")
        /\ regCall.registration \notin {"-", "OK"} =>
              regCall.result = RegOsError(regCall.registration) /\ regCall.waits = 0
        /\ regCall.regs <= 1
        /\ regCall.waits <= 1

C7_Witness ==
    /\ rpc = "idle"
    /\ regCall.made
    /\ regCall.ms = MaxTimeout
    /\ regCall.wait = "WAIT_TIMEOUT"
    /\ regCall.result = RegTimedOut

====
